---- MODULE Spec2Model ----
(***************************************************************************)
(* Model of the wildcard matchers of src/src/fast_wild_compare.rs:         *)
(* fast_wild_compare_ascii (over the bytes of two &str) and                *)
(* fast_wild_compare_utf8 (over two slices of char), as they are invoked   *)
(* by test() of src/src/main.rs on a (tame_string, wild_string) pair.      *)
(*                                                                         *)
(* One invocation is a state machine over the four index variables of the  *)
(* function; pc names the loop the invocation is in.  Every loop iteration *)
(* of the source is one step.  An indexing that is out of bounds ends the  *)
(* invocation in pc = "panic", as Rust's bounds check does.                *)
(***************************************************************************)
EXTENDS Integers, Sequences, FiniteSets, TLC

VARIABLES
    wild_string,      \* the pattern, a String: its UTF-8 bytes
    tame_string,      \* the text, a String: its UTF-8 bytes
    pc,               \* the loop the invocation is in, "done" or "panic"
    iwild,            \* index into the pattern (and the text, in the upper loop)
    itame,            \* index into the text, lower loop
    iwild_sequence,   \* fallback position in the pattern
    itame_sequence,   \* fallback position in the text
    result,           \* the returned bool, meaningful when pc = "done"
    advances,         \* how often lines 226-227 advanced both cursors
    backtracks,       \* how often the fallback of lines 176-212 was entered
    backtrack_from    \* the anchor as the last fallback found it

vars == <<wild_string, tame_string, pc, iwild, itame, iwild_sequence,
          itame_sequence, result, advances, backtracks, backtrack_from>>

----------------------------------------------------------------------------
(* Bounds of the model. *)

MaxWild == 4          \* longest pattern, in symbols (bytes, or chars in SpecUtf8)
MaxTame == 3          \* longest text, in symbols
MaxWildLive == 4      \* longest pattern of SpecLive
MaxTameLive == 2      \* longest text of SpecLive
MaxCopies == 3        \* most literals of a pattern of SpecAlternating
MaxRun == 5           \* longest text of SpecAlternating

----------------------------------------------------------------------------
(* Symbols. *)

STAR == 42            \* '*'
QMARK == 63           \* '?'

\* 'a' and 'A': two literals that differ only in letter case
Literals == {97, 65}
\* 'z', a literal that is in no pattern of the model
FreshLiterals == {122}
\* U+1E2A, U+063F: code points whose low byte is the byte of '*', of '?'
WideSymbols == {7722, 1599}

PatternAlphabet == Literals \cup {STAR, QMARK}
TextAlphabet == Literals \cup {STAR, QMARK}
Utf8Alphabet == {STAR, QMARK} \cup WideSymbols

SeqsUpTo(S, n) == UNION {[1..k -> S] : k \in 0..n}

----------------------------------------------------------------------------
(* Strings: a String holds the UTF-8 encoding of its chars. *)

Utf8EncodeChar(c) ==
    IF c < 128 THEN <<c>>
    ELSE IF c < 2048 THEN <<192 + (c \div 64), 128 + (c % 64)>>
    ELSE <<224 + (c \div 4096), 128 + ((c \div 64) % 64), 128 + (c % 64)>>

RECURSIVE Utf8Encode(_)
Utf8Encode(cs) ==
    IF cs = <<>> THEN <<>>
    ELSE Utf8EncodeChar(Head(cs)) \o Utf8Encode(Tail(cs))

\* String::chars(): decodes the bytes of a (valid) String one char at a time.
RECURSIVE Chars(_)
Chars(bytes) ==
    IF bytes = <<>> THEN <<>>
    ELSE LET b == bytes[1] IN
         IF b < 128 THEN <<b>> \o Chars(SubSeq(bytes, 2, Len(bytes)))
         ELSE IF b < 224
              THEN <<(b - 192) * 64 + (bytes[2] - 128)>>
                   \o Chars(SubSeq(bytes, 3, Len(bytes)))
              ELSE <<(b - 224) * 4096 + (bytes[2] - 128) * 64 + (bytes[3] - 128)>>
                   \o Chars(SubSeq(bytes, 4, Len(bytes)))

\* str::as_bytes(): the bytes as they are.
AsBytes(bytes) == bytes

\* s[i] with Rust's 0-based index.
At(s, i) == s[i + 1]
InBounds(s, i) == 0 <= i /\ i < Len(s)

\* A comparison of bytes that ignores the case of letters.
ByteEqIgnoreCase(x, y) ==
    \/ x = y
    \/ /\ {x, y} \subseteq (65..90) \cup (97..122)
       /\ (x % 32) = (y % 32)

\* Comparison of two bytes (u8 == u8), of two chars (char == char).
ByteEq(x, y) == x = y

\* A comparison of chars by their low byte only.
CharEqLowByte(x, y) == (x % 256) = (y % 256)

CharEq(x, y) == x = y

----------------------------------------------------------------------------
(* The local state of one invocation, as a record. *)

Unassigned == 0 - 1

Start == [pc |-> "prefix", iwild |-> 0, itame |-> Unassigned,
          iwild_sequence |-> Unassigned, itame_sequence |-> Unassigned,
          result |-> FALSE]

Return(s, b) == [s EXCEPT !.pc = "done", !.result = b]
Panic(s) == [s EXCEPT !.pc = "panic"]

----------------------------------------------------------------------------
(* fast_wild_compare_ascii: one operator per loop of the function.  w and  *)
(* t are wild_str.as_bytes() and tame_str.as_bytes().                      *)

\* A_prefix with the return of line 63 turned to true: a pattern that is a
\* prefix of the text matches.
A_prefix_wild_end_true(s, w, t) ==
    IF Len(t) <= s.iwild
    THEN IF Len(w) > s.iwild
         THEN [s EXCEPT !.pc = "prefix_tail"]
         ELSE Return(s, TRUE)
    ELSE IF Len(w) <= s.iwild
    THEN Return(s, TRUE)
    ELSE IF ByteEq(At(w, s.iwild), STAR)
    THEN [s EXCEPT !.itame = s.iwild, !.pc = "prefix_star"]
    ELSE IF ~ByteEq(At(w, s.iwild), At(t, s.iwild))
            /\ ~ByteEq(At(w, s.iwild), QMARK)
    THEN Return(s, FALSE)
    ELSE [s EXCEPT !.iwild = s.iwild + 1]

\* A_prefix with || for && in the test of lines 106-107: a '?' of the
\* pattern fails wherever the text holds another symbol.
A_prefix_or(s, w, t) ==
    IF Len(t) <= s.iwild
    THEN IF Len(w) > s.iwild
         THEN [s EXCEPT !.pc = "prefix_tail"]
         ELSE Return(s, TRUE)
    ELSE IF Len(w) <= s.iwild
    THEN Return(s, FALSE)
    ELSE IF ByteEq(At(w, s.iwild), STAR)
    THEN [s EXCEPT !.itame = s.iwild, !.pc = "prefix_star"]
    ELSE IF ~ByteEq(At(w, s.iwild), At(t, s.iwild))
            \/ ~ByteEq(At(w, s.iwild), QMARK)
    THEN Return(s, FALSE)
    ELSE [s EXCEPT !.iwild = s.iwild + 1]

\* A_prefix with the '?' of line 107 looked for in the text, not the pattern.
A_prefix_tame_qmark(s, w, t) ==
    IF Len(t) <= s.iwild
    THEN IF Len(w) > s.iwild
         THEN [s EXCEPT !.pc = "prefix_tail"]
         ELSE Return(s, TRUE)
    ELSE IF Len(w) <= s.iwild
    THEN Return(s, FALSE)
    ELSE IF ByteEq(At(w, s.iwild), STAR)
    THEN [s EXCEPT !.itame = s.iwild, !.pc = "prefix_star"]
    ELSE IF ~ByteEq(At(w, s.iwild), At(t, s.iwild))
            /\ ~ByteEq(At(t, s.iwild), QMARK)
    THEN Return(s, FALSE)
    ELSE [s EXCEPT !.iwild = s.iwild + 1]

\* Upper loop, lines 37-113: one iteration.
A_prefix(s, w, t) ==
    IF Len(t) <= s.iwild
    THEN IF Len(w) > s.iwild
         THEN [s EXCEPT !.pc = "prefix_tail"]
         ELSE Return(s, TRUE)                          \* "abc" matches "abc".
    ELSE IF Len(w) <= s.iwild
    THEN Return(s, FALSE)                              \* "abc" doesn't match "abcd".
    ELSE IF ByteEq(At(w, s.iwild), STAR)
    THEN [s EXCEPT !.itame = s.iwild, !.pc = "prefix_star"]
    ELSE IF ~ByteEq(At(w, s.iwild), At(t, s.iwild))
            /\ ~ByteEq(At(w, s.iwild), QMARK)
    THEN Return(s, FALSE)                              \* "abc" doesn't match "abd".
    ELSE [s EXCEPT !.iwild = s.iwild + 1]

\* A_prefix_tail without the check of line 48: true at the first '*'.
A_prefix_tail_first_star(s, w, t) ==
    IF ~InBounds(w, s.iwild) THEN Panic(s)
    ELSE IF ByteEq(At(w, s.iwild), STAR)
    THEN Return([s EXCEPT !.iwild = s.iwild + 1], TRUE)
    ELSE Return(s, FALSE)

\* Lines 44-54: the text is used up; the rest of the pattern must be '*'s.
A_prefix_tail(s, w, t) ==
    IF ~InBounds(w, s.iwild) THEN Panic(s)
    ELSE IF ByteEq(At(w, s.iwild), STAR)
    THEN IF Len(w) <= s.iwild + 1
         THEN Return([s EXCEPT !.iwild = s.iwild + 1], TRUE)   \* "ab" matches "ab*".
         ELSE [s EXCEPT !.iwild = s.iwild + 1]
    ELSE Return(s, FALSE)                              \* "abcd" doesn't match "abc".

\* A_prefix_star without the continue of lines 79-82: one '*' is skipped.
A_prefix_star_single(s, w, t) ==
    LET i == s.iwild + 1 IN
    IF Len(w) <= i
    THEN Return([s EXCEPT !.iwild = i], TRUE)
    ELSE [s EXCEPT !.iwild = i, !.pc = "prefix_seek"]

\* Lines 70-85: skip the run of '*'s.
A_prefix_star(s, w, t) ==
    LET i == s.iwild + 1 IN
    IF Len(w) <= i
    THEN Return([s EXCEPT !.iwild = i], TRUE)          \* "abc*" matches "abcd".
    ELSE IF ByteEq(At(w, i), STAR)
    THEN [s EXCEPT !.iwild = i]
    ELSE [s EXCEPT !.iwild = i, !.pc = "prefix_seek"]

\* A_prefix_seek without the test of line 88: a '?' after the '*'s is
\* searched for in the text like any other symbol.
A_prefix_seek_qmark_searched(s, w, t) ==
    IF ~InBounds(w, s.iwild) THEN Panic(s)
    ELSE [s EXCEPT !.pc = "prefix_scan"]

\* Lines 88 and 102-104: a '?' after the '*'s needs no search.
A_prefix_seek(s, w, t) ==
    IF ~InBounds(w, s.iwild) THEN Panic(s)
    ELSE IF ~ByteEq(At(w, s.iwild), QMARK)
    THEN [s EXCEPT !.pc = "prefix_scan"]
    ELSE [s EXCEPT !.iwild_sequence = s.iwild, !.itame_sequence = s.itame,
                   !.pc = "steady"]

\* A_prefix_scan without the check for the end of the text of lines 94-97.
A_prefix_scan_no_end_check(s, w, t) ==
    IF ~InBounds(w, s.iwild) \/ ~InBounds(t, s.itame) THEN Panic(s)
    ELSE IF ~ByteEq(At(w, s.iwild), At(t, s.itame))
    THEN [s EXCEPT !.itame = s.itame + 1]
    ELSE [s EXCEPT !.iwild_sequence = s.iwild, !.itame_sequence = s.itame,
                   !.pc = "steady"]

\* Lines 90-104: search for the next prospective match.
A_prefix_scan(s, w, t) ==
    IF ~InBounds(w, s.iwild) \/ ~InBounds(t, s.itame) THEN Panic(s)
    ELSE IF ~ByteEq(At(w, s.iwild), At(t, s.itame))
    THEN IF Len(t) <= s.itame + 1
         THEN Return([s EXCEPT !.itame = s.itame + 1], FALSE)  \* "a*bc" doesn't match "ab".
         ELSE [s EXCEPT !.itame = s.itame + 1]
    ELSE [s EXCEPT !.iwild_sequence = s.iwild, !.itame_sequence = s.itame,
                   !.pc = "steady"]

\* A_steady without the comparison of lines 174-175: any pattern symbol
\* matches the text symbol.
A_steady_any_symbol_matches(s, w, t) ==
    IF Len(w) > s.iwild /\ ByteEq(At(w, s.iwild), STAR)
    THEN [s EXCEPT !.pc = "steady_star"]
    ELSE IF Len(t) <= s.itame
    THEN Return(s, Len(w) <= s.iwild)
    ELSE IF Len(w) <= s.iwild
    THEN [s EXCEPT !.pc = "questions"]
    ELSE [s EXCEPT !.pc = "end_check"]

\* A_steady with the test of line 173 turned round: a pattern that is used
\* up counts as matching on.
A_steady_wild_end_matches(s, w, t) ==
    IF Len(w) > s.iwild /\ ByteEq(At(w, s.iwild), STAR)
    THEN [s EXCEPT !.pc = "steady_star"]
    ELSE IF Len(t) <= s.itame
    THEN Return(s, Len(w) <= s.iwild)
    ELSE IF Len(w) > s.iwild
            /\ ~ByteEq(At(w, s.iwild), At(t, s.itame))
            /\ ~ByteEq(At(w, s.iwild), QMARK)
    THEN [s EXCEPT !.pc = "questions"]
    ELSE [s EXCEPT !.pc = "end_check"]

\* Lower loop, lines 116-118 and 160-175: the branch one iteration takes.
A_steady(s, w, t) ==
    IF Len(w) > s.iwild /\ ByteEq(At(w, s.iwild), STAR)
    THEN [s EXCEPT !.pc = "steady_star"]
    ELSE IF Len(t) <= s.itame
    THEN Return(s, Len(w) <= s.iwild)   \* "*b*c" matches "abc", "*bcd" doesn't.
    ELSE IF Len(w) <= s.iwild
            \/ (~ByteEq(At(w, s.iwild), At(t, s.itame))
                /\ ~ByteEq(At(w, s.iwild), QMARK))
    THEN [s EXCEPT !.pc = "questions"]
    ELSE [s EXCEPT !.pc = "end_check"]

\* Lines 121-134: got wild again, skip the run of '*'s.
A_steady_star(s, w, t) ==
    LET i == s.iwild + 1 IN
    IF Len(w) <= i
    THEN Return([s EXCEPT !.iwild = i], TRUE)          \* "ab*c*" matches "abcd".
    ELSE IF ~ByteEq(At(w, i), STAR)
    THEN [s EXCEPT !.iwild = i, !.pc = "steady_seek"]
    ELSE [s EXCEPT !.iwild = i]

\* A_steady_seek that goes on in the search loop of the upper loop.
A_steady_seek_upper_scan(s, w, t) ==
    IF Len(t) <= s.itame
    THEN Return(s, FALSE)
    ELSE IF ~InBounds(w, s.iwild) THEN Panic(s)
    ELSE IF ~ByteEq(At(w, s.iwild), QMARK)
    THEN [s EXCEPT !.pc = "prefix_scan"]
    ELSE [s EXCEPT !.iwild_sequence = s.iwild, !.itame_sequence = s.itame,
                   !.pc = "end_check"]

\* A_steady_seek without line 158: a '?' after the '*'s moves the anchor's
\* pattern position only.
A_steady_seek_anchor_tame_stays(s, w, t) ==
    IF Len(t) <= s.itame
    THEN Return(s, FALSE)
    ELSE IF ~InBounds(w, s.iwild) THEN Panic(s)
    ELSE IF ~ByteEq(At(w, s.iwild), QMARK)
    THEN [s EXCEPT !.pc = "steady_scan"]
    ELSE [s EXCEPT !.iwild_sequence = s.iwild, !.pc = "end_check"]

\* Lines 136-142 and 157-158.
A_steady_seek(s, w, t) ==
    IF Len(t) <= s.itame
    THEN Return(s, FALSE)                              \* "*bcd*" doesn't match "abc".
    ELSE IF ~InBounds(w, s.iwild) THEN Panic(s)
    ELSE IF ~ByteEq(At(w, s.iwild), QMARK)
    THEN [s EXCEPT !.pc = "steady_scan"]
    ELSE [s EXCEPT !.iwild_sequence = s.iwild, !.itame_sequence = s.itame,
                   !.pc = "end_check"]

\* A_steady_scan without the return of lines 149-152: a search that uses up
\* the text goes on to the end of the iteration.
A_steady_scan_no_end_return(s, w, t) ==
    IF Len(t) > s.itame /\ ~InBounds(w, s.iwild) THEN Panic(s)
    ELSE IF Len(t) > s.itame /\ ~ByteEq(At(w, s.iwild), At(t, s.itame))
    THEN [s EXCEPT !.itame = s.itame + 1]
    ELSE [s EXCEPT !.iwild_sequence = s.iwild, !.itame_sequence = s.itame,
                   !.pc = "end_check"]

\* A_steady_scan without lines 157-158: the anchor of the earlier '*' is
\* kept.
A_steady_scan_keeps_anchor(s, w, t) ==
    IF Len(t) > s.itame /\ ~InBounds(w, s.iwild) THEN Panic(s)
    ELSE IF Len(t) > s.itame /\ ~ByteEq(At(w, s.iwild), At(t, s.itame))
    THEN IF Len(t) <= s.itame + 1
         THEN Return([s EXCEPT !.itame = s.itame + 1], FALSE)
         ELSE [s EXCEPT !.itame = s.itame + 1]
    ELSE [s EXCEPT !.pc = "end_check"]

\* Lines 144-158: search for the next prospective match.
A_steady_scan(s, w, t) ==
    IF Len(t) > s.itame /\ ~InBounds(w, s.iwild) THEN Panic(s)
    ELSE IF Len(t) > s.itame /\ ~ByteEq(At(w, s.iwild), At(t, s.itame))
    THEN IF Len(t) <= s.itame + 1
         THEN Return([s EXCEPT !.itame = s.itame + 1], FALSE)  \* "a*b*c" doesn't match "ab".
         ELSE [s EXCEPT !.itame = s.itame + 1]
    ELSE [s EXCEPT !.iwild_sequence = s.iwild, !.itame_sequence = s.itame,
                   !.pc = "end_check"]

\* A_questions without line 182: the anchor's text position stays behind
\* when a '?' is passed.
A_questions_anchor_tame_stays(s, w, t) ==
    IF Len(w) > s.iwild_sequence /\ ByteEq(At(w, s.iwild_sequence), QMARK)
    THEN [s EXCEPT !.iwild_sequence = s.iwild_sequence + 1]
    ELSE [s EXCEPT !.iwild = s.iwild_sequence, !.pc = "fall_back"]

\* A_questions without line 185: iwild is not taken back to the anchor.
A_questions_keeps_wild(s, w, t) ==
    IF Len(w) > s.iwild_sequence /\ ByteEq(At(w, s.iwild_sequence), QMARK)
    THEN [s EXCEPT !.iwild_sequence = s.iwild_sequence + 1,
                   !.itame_sequence = s.itame_sequence + 1]
    ELSE [s EXCEPT !.pc = "fall_back"]

\* Lines 178-185: a fine time for questions.
A_questions(s, w, t) ==
    IF Len(w) > s.iwild_sequence /\ ByteEq(At(w, s.iwild_sequence), QMARK)
    THEN [s EXCEPT !.iwild_sequence = s.iwild_sequence + 1,
                   !.itame_sequence = s.itame_sequence + 1]
    ELSE [s EXCEPT !.iwild = s.iwild_sequence, !.pc = "fall_back"]

\* A_fall_back without line 213: itame is not taken to the anchor.
A_fall_back_keeps_tame(s, w, t) ==
    LET j == s.itame_sequence + 1 IN
    IF Len(t) <= j
    THEN Return([s EXCEPT !.itame_sequence = j], Len(w) <= s.iwild)
    ELSE IF Len(w) > s.iwild /\ ByteEq(At(w, s.iwild), At(t, j))
    THEN [s EXCEPT !.itame_sequence = j, !.pc = "end_check"]
    ELSE [s EXCEPT !.itame_sequence = j]

\* A_fall_back without line 190: the anchor is never moved.
A_fall_back_no_advance(s, w, t) ==
    LET j == s.itame_sequence IN
    IF Len(t) <= j
    THEN Return([s EXCEPT !.itame_sequence = j], Len(w) <= s.iwild)
    ELSE IF Len(w) > s.iwild /\ ByteEq(At(w, s.iwild), At(t, j))
    THEN [s EXCEPT !.itame_sequence = j, !.itame = j, !.pc = "end_check"]
    ELSE [s EXCEPT !.itame_sequence = j]

\* Lines 188-211: fall back, but never so far again.
A_fall_back(s, w, t) ==
    LET j == s.itame_sequence + 1 IN
    IF Len(t) <= j
    THEN Return([s EXCEPT !.itame_sequence = j], Len(w) <= s.iwild)
    ELSE IF Len(w) > s.iwild /\ ByteEq(At(w, s.iwild), At(t, j))
    THEN [s EXCEPT !.itame_sequence = j, !.itame = j, !.pc = "end_check"]
    ELSE [s EXCEPT !.itame_sequence = j]

\* A_end_check without line 227: the text cursor stays behind.
A_end_check_keeps_tame(s, w, t) ==
    IF Len(t) <= s.itame
    THEN Return(s, Len(w) <= s.iwild)
    ELSE [s EXCEPT !.iwild = s.iwild + 1, !.pc = "steady"]

\* Lines 215-227: another check for the end, at the end.
A_end_check(s, w, t) ==
    IF Len(t) <= s.itame
    THEN Return(s, Len(w) <= s.iwild)    \* "*bc" matches "abc", not "abcd".
    ELSE [s EXCEPT !.iwild = s.iwild + 1, !.itame = s.itame + 1,
                   !.pc = "steady"]

\* One step of fast_wild_compare_ascii from the local state s.
AsciiStep(s, w, t) ==
    CASE s.pc = "prefix"      -> A_prefix(s, w, t)
      [] s.pc = "prefix_tail" -> A_prefix_tail(s, w, t)
      [] s.pc = "prefix_star" -> A_prefix_star(s, w, t)
      [] s.pc = "prefix_seek" -> A_prefix_seek(s, w, t)
      [] s.pc = "prefix_scan" -> A_prefix_scan(s, w, t)
      [] s.pc = "steady"      -> A_steady(s, w, t)
      [] s.pc = "steady_star" -> A_steady_star(s, w, t)
      [] s.pc = "steady_seek" -> A_steady_seek(s, w, t)
      [] s.pc = "steady_scan" -> A_steady_scan(s, w, t)
      [] s.pc = "questions"   -> A_questions(s, w, t)
      [] s.pc = "fall_back"   -> A_fall_back(s, w, t)
      [] s.pc = "end_check"   -> A_end_check(s, w, t)
      [] OTHER                -> s

----------------------------------------------------------------------------
(* fast_wild_compare_utf8: the same loops over wild_slice and tame_slice,  *)
(* two slices of char (w and t).                                           *)

\* Upper loop, lines 251-327: one iteration.
U_prefix(s, w, t) ==
    IF Len(t) <= s.iwild
    THEN IF Len(w) > s.iwild
         THEN [s EXCEPT !.pc = "prefix_tail"]
         ELSE Return(s, TRUE)                          \* "abc" matches "abc".
    ELSE IF Len(w) <= s.iwild
    THEN Return(s, FALSE)                              \* "abc" doesn't match "abcd".
    ELSE IF CharEq(At(w, s.iwild), STAR)
    THEN [s EXCEPT !.itame = s.iwild, !.pc = "prefix_star"]
    ELSE IF ~CharEq(At(w, s.iwild), At(t, s.iwild))
            /\ ~CharEq(At(w, s.iwild), QMARK)
    THEN Return(s, FALSE)                              \* "abc" doesn't match "abd".
    ELSE [s EXCEPT !.iwild = s.iwild + 1]

\* Lines 258-268: the text is used up; the rest of the pattern must be '*'s.
U_prefix_tail(s, w, t) ==
    IF ~InBounds(w, s.iwild) THEN Panic(s)
    ELSE IF CharEq(At(w, s.iwild), STAR)
    THEN IF Len(w) <= s.iwild + 1
         THEN Return([s EXCEPT !.iwild = s.iwild + 1], TRUE)   \* "ab" matches "ab*".
         ELSE [s EXCEPT !.iwild = s.iwild + 1]
    ELSE Return(s, FALSE)                              \* "abcd" doesn't match "abc".

\* Lines 284-299: skip the run of '*'s.
U_prefix_star(s, w, t) ==
    LET i == s.iwild + 1 IN
    IF Len(w) <= i
    THEN Return([s EXCEPT !.iwild = i], TRUE)          \* "abc*" matches "abcd".
    ELSE IF CharEq(At(w, i), STAR)
    THEN [s EXCEPT !.iwild = i]
    ELSE [s EXCEPT !.iwild = i, !.pc = "prefix_seek"]

\* Lines 302 and 316-318: a '?' after the '*'s needs no search.
U_prefix_seek(s, w, t) ==
    IF ~InBounds(w, s.iwild) THEN Panic(s)
    ELSE IF ~CharEq(At(w, s.iwild), QMARK)
    THEN [s EXCEPT !.pc = "prefix_scan"]
    ELSE [s EXCEPT !.iwild_sequence = s.iwild, !.itame_sequence = s.itame,
                   !.pc = "steady"]

\* Lines 304-318: search for the next prospective match.
U_prefix_scan(s, w, t) ==
    IF ~InBounds(w, s.iwild) \/ ~InBounds(t, s.itame) THEN Panic(s)
    ELSE IF ~CharEq(At(w, s.iwild), At(t, s.itame))
    THEN IF Len(t) <= s.itame + 1
         THEN Return([s EXCEPT !.itame = s.itame + 1], FALSE)  \* "a*bc" doesn't match "ab".
         ELSE [s EXCEPT !.itame = s.itame + 1]
    ELSE [s EXCEPT !.iwild_sequence = s.iwild, !.itame_sequence = s.itame,
                   !.pc = "steady"]

\* Lower loop, lines 330-332 and 374-389: the branch one iteration takes.
U_steady(s, w, t) ==
    IF Len(w) > s.iwild /\ CharEq(At(w, s.iwild), STAR)
    THEN [s EXCEPT !.pc = "steady_star"]
    ELSE IF Len(t) <= s.itame
    THEN Return(s, Len(w) <= s.iwild)   \* "*b*c" matches "abc", "*bcd" doesn't.
    ELSE IF Len(w) <= s.iwild
            \/ (~CharEq(At(w, s.iwild), At(t, s.itame))
                /\ ~CharEq(At(w, s.iwild), QMARK))
    THEN [s EXCEPT !.pc = "questions"]
    ELSE [s EXCEPT !.pc = "end_check"]

\* Lines 335-348: got wild again, skip the run of '*'s.
U_steady_star(s, w, t) ==
    LET i == s.iwild + 1 IN
    IF Len(w) <= i
    THEN Return([s EXCEPT !.iwild = i], TRUE)          \* "ab*c*" matches "abcd".
    ELSE IF ~CharEq(At(w, i), STAR)
    THEN [s EXCEPT !.iwild = i, !.pc = "steady_seek"]
    ELSE [s EXCEPT !.iwild = i]

\* Lines 350-356 and 371-372.
U_steady_seek(s, w, t) ==
    IF Len(t) <= s.itame
    THEN Return(s, FALSE)                              \* "*bcd*" doesn't match "abc".
    ELSE IF ~InBounds(w, s.iwild) THEN Panic(s)
    ELSE IF ~CharEq(At(w, s.iwild), QMARK)
    THEN [s EXCEPT !.pc = "steady_scan"]
    ELSE [s EXCEPT !.iwild_sequence = s.iwild, !.itame_sequence = s.itame,
                   !.pc = "end_check"]

\* Lines 358-372: search for the next prospective match.
U_steady_scan(s, w, t) ==
    IF Len(t) > s.itame /\ ~InBounds(w, s.iwild) THEN Panic(s)
    ELSE IF Len(t) > s.itame /\ ~CharEq(At(w, s.iwild), At(t, s.itame))
    THEN IF Len(t) <= s.itame + 1
         THEN Return([s EXCEPT !.itame = s.itame + 1], FALSE)  \* "a*b*c" doesn't match "ab".
         ELSE [s EXCEPT !.itame = s.itame + 1]
    ELSE [s EXCEPT !.iwild_sequence = s.iwild, !.itame_sequence = s.itame,
                   !.pc = "end_check"]

\* U_questions without line 396: the '?'s are skipped in the pattern only.
U_questions_keeps_tame(s, w, t) ==
    IF Len(w) > s.iwild_sequence /\ CharEq(At(w, s.iwild_sequence), QMARK)
    THEN [s EXCEPT !.iwild_sequence = s.iwild_sequence + 1]
    ELSE [s EXCEPT !.iwild = s.iwild_sequence, !.pc = "fall_back"]

\* Lines 392-399: a fine time for questions.
U_questions(s, w, t) ==
    IF Len(w) > s.iwild_sequence /\ CharEq(At(w, s.iwild_sequence), QMARK)
    THEN [s EXCEPT !.iwild_sequence = s.iwild_sequence + 1,
                   !.itame_sequence = s.itame_sequence + 1]
    ELSE [s EXCEPT !.iwild = s.iwild_sequence, !.pc = "fall_back"]

\* Lines 402-425: fall back, but never so far again.
U_fall_back(s, w, t) ==
    LET j == s.itame_sequence + 1 IN
    IF Len(t) <= j
    THEN Return([s EXCEPT !.itame_sequence = j], Len(w) <= s.iwild)
    ELSE IF Len(w) > s.iwild /\ CharEq(At(w, s.iwild), At(t, j))
    THEN [s EXCEPT !.itame_sequence = j, !.itame = j, !.pc = "end_check"]
    ELSE [s EXCEPT !.itame_sequence = j]

\* Lines 429-441: another check for the end, at the end.
U_end_check(s, w, t) ==
    IF Len(t) <= s.itame
    THEN Return(s, Len(w) <= s.iwild)    \* "*bc" matches "abc", not "abcd".
    ELSE [s EXCEPT !.iwild = s.iwild + 1, !.itame = s.itame + 1,
                   !.pc = "steady"]

\* One step of fast_wild_compare_utf8 from the local state s.
Utf8Step(s, w, t) ==
    CASE s.pc = "prefix"      -> U_prefix(s, w, t)
      [] s.pc = "prefix_tail" -> U_prefix_tail(s, w, t)
      [] s.pc = "prefix_star" -> U_prefix_star(s, w, t)
      [] s.pc = "prefix_seek" -> U_prefix_seek(s, w, t)
      [] s.pc = "prefix_scan" -> U_prefix_scan(s, w, t)
      [] s.pc = "steady"      -> U_steady(s, w, t)
      [] s.pc = "steady_star" -> U_steady_star(s, w, t)
      [] s.pc = "steady_seek" -> U_steady_seek(s, w, t)
      [] s.pc = "steady_scan" -> U_steady_scan(s, w, t)
      [] s.pc = "questions"   -> U_questions(s, w, t)
      [] s.pc = "fall_back"   -> U_fall_back(s, w, t)
      [] s.pc = "end_check"   -> U_end_check(s, w, t)
      [] OTHER                -> s

----------------------------------------------------------------------------
(* The invocation as a state machine. *)

Cur == [pc |-> pc, iwild |-> iwild, itame |-> itame,
        iwild_sequence |-> iwild_sequence, itame_sequence |-> itame_sequence,
        result |-> result]

\* The two counters stop one above len(pattern) * len(text) and len(text):
\* they tell whether these were exceeded, not by how much.
Assign(r) ==
    /\ pc' = r.pc
    /\ iwild' = r.iwild
    /\ itame' = r.itame
    /\ iwild_sequence' = r.iwild_sequence
    /\ itame_sequence' = r.itame_sequence
    /\ result' = r.result
    /\ advances' = IF pc = "end_check" /\ r.pc = "steady"
                      /\ advances <= Len(wild_string) * Len(tame_string)
                   THEN advances + 1 ELSE advances
    /\ backtracks' = IF pc = "steady" /\ r.pc = "questions"
                        /\ backtracks <= Len(tame_string)
                     THEN backtracks + 1 ELSE backtracks
    /\ backtrack_from' = IF pc = "steady" /\ r.pc = "questions"
                         THEN <<iwild_sequence, itame_sequence>>
                         ELSE backtrack_from
    /\ UNCHANGED <<wild_string, tame_string>>

\* The function starts with iwild = 0 and has done nothing yet.
InitLocals ==
    /\ pc = Start.pc
    /\ iwild = Start.iwild
    /\ itame = Start.itame
    /\ iwild_sequence = Start.iwild_sequence
    /\ itame_sequence = Start.itame_sequence
    /\ result = Start.result
    /\ advances = 0
    /\ backtracks = 0
    /\ backtrack_from = <<Unassigned, Unassigned>>

\* test() is handed two Strings.
InitStrings(alphabetW, maxW, alphabetT, maxT) ==
    /\ wild_string \in {Utf8Encode(cs) : cs \in SeqsUpTo(alphabetW, maxW)}
    /\ tame_string \in {Utf8Encode(cs) : cs \in SeqsUpTo(alphabetT, maxT)}
    /\ InitLocals

Init == InitStrings(PatternAlphabet, MaxWild, TextAlphabet, MaxTame)

InitUtf8 == InitStrings(Utf8Alphabet, MaxWild, Utf8Alphabet, MaxTame)

InitLive == InitStrings(PatternAlphabet, MaxWildLive, TextAlphabet, MaxTameLive)

\* n copies of the symbol c.
Copies(c, n) == [i \in 1..n |-> c]

\* "*c*c*...*c*" with k copies of c, as in test_wild (lines 281-284).
Alternating(c, k) == [i \in 1..(2 * k + 1) |-> IF i % 2 = 1 THEN STAR ELSE c]

\* The same without its first '*' (lines 279-280), without its last '*'.
AlternatingPatterns ==
    {SubSeq(Alternating(c, k), from, 2 * k + last) :
        c \in Literals, k \in 1..MaxCopies, from \in {1, 2}, last \in {0, 1}}

\* Long runs of alternating literals and '*' against texts of 'a's and 'A's.
InitAlternating ==
    /\ wild_string \in {Utf8Encode(cs) : cs \in AlternatingPatterns}
    /\ tame_string \in {Utf8Encode(cs) : cs \in SeqsUpTo(Literals, MaxRun)}
    /\ InitLocals

Ascii_prefix ==
    /\ pc = "prefix"
    /\ Assign(A_prefix(Cur, AsBytes(wild_string), AsBytes(tame_string)))

Ascii_prefix_tail ==
    /\ pc = "prefix_tail"
    /\ Assign(A_prefix_tail(Cur, AsBytes(wild_string), AsBytes(tame_string)))

Ascii_prefix_star ==
    /\ pc = "prefix_star"
    /\ Assign(A_prefix_star(Cur, AsBytes(wild_string), AsBytes(tame_string)))

Ascii_prefix_seek ==
    /\ pc = "prefix_seek"
    /\ Assign(A_prefix_seek(Cur, AsBytes(wild_string), AsBytes(tame_string)))

Ascii_prefix_scan ==
    /\ pc = "prefix_scan"
    /\ Assign(A_prefix_scan(Cur, AsBytes(wild_string), AsBytes(tame_string)))

Ascii_steady ==
    /\ pc = "steady"
    /\ Assign(A_steady(Cur, AsBytes(wild_string), AsBytes(tame_string)))

Ascii_steady_star ==
    /\ pc = "steady_star"
    /\ Assign(A_steady_star(Cur, AsBytes(wild_string), AsBytes(tame_string)))

Ascii_steady_seek ==
    /\ pc = "steady_seek"
    /\ Assign(A_steady_seek(Cur, AsBytes(wild_string), AsBytes(tame_string)))

Ascii_steady_scan ==
    /\ pc = "steady_scan"
    /\ Assign(A_steady_scan(Cur, AsBytes(wild_string), AsBytes(tame_string)))

Ascii_questions ==
    /\ pc = "questions"
    /\ Assign(A_questions(Cur, AsBytes(wild_string), AsBytes(tame_string)))

Ascii_fall_back ==
    /\ pc = "fall_back"
    /\ Assign(A_fall_back(Cur, AsBytes(wild_string), AsBytes(tame_string)))

Ascii_end_check ==
    /\ pc = "end_check"
    /\ Assign(A_end_check(Cur, AsBytes(wild_string), AsBytes(tame_string)))

Utf8_prefix ==
    /\ pc = "prefix"
    /\ Assign(U_prefix(Cur, Chars(wild_string), Chars(tame_string)))

Utf8_prefix_tail ==
    /\ pc = "prefix_tail"
    /\ Assign(U_prefix_tail(Cur, Chars(wild_string), Chars(tame_string)))

Utf8_prefix_star ==
    /\ pc = "prefix_star"
    /\ Assign(U_prefix_star(Cur, Chars(wild_string), Chars(tame_string)))

Utf8_prefix_seek ==
    /\ pc = "prefix_seek"
    /\ Assign(U_prefix_seek(Cur, Chars(wild_string), Chars(tame_string)))

Utf8_prefix_scan ==
    /\ pc = "prefix_scan"
    /\ Assign(U_prefix_scan(Cur, Chars(wild_string), Chars(tame_string)))

Utf8_steady ==
    /\ pc = "steady"
    /\ Assign(U_steady(Cur, Chars(wild_string), Chars(tame_string)))

Utf8_steady_star ==
    /\ pc = "steady_star"
    /\ Assign(U_steady_star(Cur, Chars(wild_string), Chars(tame_string)))

Utf8_steady_seek ==
    /\ pc = "steady_seek"
    /\ Assign(U_steady_seek(Cur, Chars(wild_string), Chars(tame_string)))

Utf8_steady_scan ==
    /\ pc = "steady_scan"
    /\ Assign(U_steady_scan(Cur, Chars(wild_string), Chars(tame_string)))

Utf8_questions ==
    /\ pc = "questions"
    /\ Assign(U_questions(Cur, Chars(wild_string), Chars(tame_string)))

Utf8_fall_back ==
    /\ pc = "fall_back"
    /\ Assign(U_fall_back(Cur, Chars(wild_string), Chars(tame_string)))

Utf8_end_check ==
    /\ pc = "end_check"
    /\ Assign(U_end_check(Cur, Chars(wild_string), Chars(tame_string)))

Next ==
    \/ Ascii_prefix
    \/ Ascii_prefix_tail
    \/ Ascii_prefix_star
    \/ Ascii_prefix_seek
    \/ Ascii_prefix_scan
    \/ Ascii_steady
    \/ Ascii_steady_star
    \/ Ascii_steady_seek
    \/ Ascii_steady_scan
    \/ Ascii_questions
    \/ Ascii_fall_back
    \/ Ascii_end_check

NextUtf8 ==
    \/ Utf8_prefix
    \/ Utf8_prefix_tail
    \/ Utf8_prefix_star
    \/ Utf8_prefix_seek
    \/ Utf8_prefix_scan
    \/ Utf8_steady
    \/ Utf8_steady_star
    \/ Utf8_steady_seek
    \/ Utf8_steady_scan
    \/ Utf8_questions
    \/ Utf8_fall_back
    \/ Utf8_end_check

\* fast_wild_compare_ascii(&wild_string, &tame_string)
Spec == Init /\ [][Next]_vars

\* fast_wild_compare_utf8(wild_string.chars()..., tame_string.chars()...)
SpecUtf8 == InitUtf8 /\ [][NextUtf8]_vars

\* fast_wild_compare_ascii on the many-wildcard scenarios of test_wild
SpecAlternating == InitAlternating /\ [][Next]_vars

\* A running invocation is never suspended: it takes its next step.
SpecLive == InitLive /\ [][Next]_vars /\ WF_vars(Next)

----------------------------------------------------------------------------
(* The functions as a whole: the steps iterated from Start to the return.  *)

StepBudget(w, t) == 4 * (Len(w) + 2) * (Len(t) + 2)

RECURSIVE AsciiRun(_, _, _, _)
AsciiRun(s, w, t, n) ==
    IF s.pc \in {"done", "panic"} \/ n = 0 THEN s
    ELSE AsciiRun(AsciiStep(s, w, t), w, t, n - 1)

fast_wild_compare_ascii(wild_str, tame_str) ==
    AsciiRun(Start, AsBytes(wild_str), AsBytes(tame_str),
             StepBudget(wild_str, tame_str))

----------------------------------------------------------------------------
(* Definitions the properties are stated with. *)

Range(s) == {s[i] : i \in 1..Len(s)}

Wild == AsBytes(wild_string)
Tame == AsBytes(tame_string)

\* The naive glob matcher: a literal matches one equal symbol, QMARK one
\* arbitrary symbol, STAR any run of symbols, the empty one included.
RECURSIVE GlobMatch(_, _)
GlobMatch(p, x) ==
    IF p = <<>> THEN x = <<>>
    ELSE IF Head(p) = STAR
    THEN GlobMatch(Tail(p), x) \/ (x # <<>> /\ GlobMatch(p, Tail(x)))
    ELSE /\ x # <<>>
         /\ (Head(p) = QMARK \/ Head(p) = Head(x))
         /\ GlobMatch(Tail(p), Tail(x))

\* p with every maximal run of STARs replaced by one STAR.
RECURSIVE CollapseStars(_)
CollapseStars(p) ==
    IF Len(p) < 2 THEN p
    ELSE IF p[1] = STAR /\ p[2] = STAR THEN CollapseStars(Tail(p))
    ELSE <<p[1]>> \o CollapseStars(Tail(p))

\* x with every STAR and QMARK replaced by the literal c.
ReplaceWildcards(x, c) ==
    [i \in 1..Len(x) |-> IF x[i] \in {STAR, QMARK} THEN c ELSE x[i]]

Returned == pc = "done"

----------------------------------------------------------------------------
(* Properties of fast_wild_compare_ascii, checked under Spec. *)

\* C1: whenever fast_wild_compare_ascii returns, it returns true exactly when
\* the naive glob matcher accepts the same pattern and text (no false
\* negative of the single-anchor backtrack, no false positive).
C1_AgreesWithGlobMatch ==
    Returned => (result <=> GlobMatch(Wild, Tame))

\* A match found after a fallback: the pattern is a '*' followed by '?'s and
\* literals, and the anchor's literal stands in the text at an alignment
\* before the anchor's, which was tried and given up.
C1_Witness ==
    /\ Returned /\ result
    /\ Len(Wild) >= 3 /\ Wild[1] = STAR
    /\ STAR \notin Range(Tail(Wild))
    /\ QMARK \in Range(Wild)
    /\ InBounds(Wild, iwild_sequence)
    /\ \E j \in (iwild_sequence - 1)..(itame_sequence - 1) :
          Tame[j + 1] = At(Wild, iwild_sequence)

\* C2: every invocation eventually returns: no loop of the function runs
\* forever (checked under SpecLive, where a running invocation keeps going).
C2_Terminates == <>(pc = "done")

\* A return reached from the fall-back loop of the lower loop.
C2_Witness ==
    /\ Returned
    /\ itame_sequence # Unassigned
    /\ itame_sequence = Len(Tame)
    /\ iwild_sequence < Len(Wild)

\* C3: no indexing is out of bounds: an invocation never panics, the indexes
\* stay within what the loops may read, and a return carries a bool.
C3_NoFailure ==
    /\ pc # "panic"
    /\ pc \in {"prefix_tail", "prefix_seek", "prefix_scan", "steady_seek",
               "steady_scan"} => InBounds(Wild, iwild)
    /\ pc = "prefix_scan" => InBounds(Tame, itame)
    /\ Returned => result \in BOOLEAN

\* The search of the upper loop reading the last symbol of the text.
C3_Witness ==
    /\ pc = "prefix_scan"
    /\ itame = Len(Tame) - 1
    /\ itame > iwild

\* C4: with an empty pattern or an empty text, the result is true exactly
\* when the text is empty and the pattern holds nothing but STARs.
C4_EmptyInputs ==
    (Returned /\ (Wild = <<>> \/ Tame = <<>>))
        => (result <=> (Tame = <<>> /\ Range(Wild) \subseteq {STAR}))

\* A pattern of several STARs matched against the empty text.
C4_Witness ==
    /\ Returned /\ result
    /\ Tame = <<>>
    /\ Len(Wild) >= 2

\* C5: a pattern without STAR and QMARK matches exactly the text equal to
\* it, symbol by symbol and in length ('a' and 'A' are different symbols).
C5_NoWildcards ==
    (Returned /\ Range(Wild) \cap {STAR, QMARK} = {})
        => (result <=> (Wild = Tame))

\* A pattern of 'a's and 'A's compared with a text of the same length that
\* differs from it only in letter case.
C5_Witness ==
    /\ Returned /\ ~result
    /\ Range(Wild) \cap {STAR, QMARK} = {}
    /\ Len(Wild) = Len(Tame) /\ Len(Wild) >= 2
    /\ \A i \in 1..Len(Wild) : Wild[i] % 32 = Tame[i] % 32

\* C6: a pattern of n QMARKs (n >= 0) matches exactly the texts of n symbols.
C6_OnlyQmarks ==
    (Returned /\ Range(Wild) \subseteq {QMARK})
        => (result <=> (Len(Tame) = Len(Wild)))

\* Several QMARKs matched against a text holding a STAR and a QMARK.
C6_Witness ==
    /\ Returned /\ result
    /\ Len(Wild) >= 2
    /\ Range(Wild) = {QMARK}
    /\ {STAR, QMARK} \subseteq Range(Tame)

\* C7: the result for a pattern is the result for the pattern with every
\* run of STARs collapsed to one STAR.
C7_CollapseStars ==
    Returned =>
        LET r == fast_wild_compare_ascii(CollapseStars(Wild), Tame) IN
        r.pc = "done" /\ r.result = result

\* A pattern with a run of STARs, followed by more pattern, that matches.
C7_Witness ==
    /\ Returned /\ result
    /\ \E i \in 1..(Len(Wild) - 2) :
          Wild[i] = STAR /\ Wild[i + 1] = STAR /\ Wild[i + 2] # STAR
    /\ Len(Tame) >= 2

\* C8: replacing every STAR and QMARK of the text by a literal that is not
\* in the pattern leaves the result unchanged.
C8_TextWildcardsAreLiterals ==
    Returned =>
        \A c \in (Literals \cup FreshLiterals) \ Range(Wild) :
            LET r == fast_wild_compare_ascii(Wild, ReplaceWildcards(Tame, c)) IN
            r.pc = "done" /\ r.result = result

\* A text holding a STAR and a QMARK matched by a pattern with a literal.
C8_Witness ==
    /\ Returned /\ result
    /\ {STAR, QMARK} \subseteq Range(Tame)
    /\ Range(Wild) \cap Literals # {}
    /\ Range(Wild) \cap {STAR, QMARK} # {}

\* C9: on ASCII strings, every step of fast_wild_compare_ascii on the bytes
\* is the step fast_wild_compare_utf8 takes on the chars from the same local
\* state: same loop, cursors, anchors and result.
C9_LockStep ==
    [][Cur' = Utf8Step(Cur, Chars(wild_string), Chars(tame_string))]_vars

\* A fallback in progress past a '?' of the pattern.
C9_Witness ==
    /\ pc = "fall_back"
    /\ itame_sequence > iwild_sequence
    /\ QMARK \in Range(Wild)

----------------------------------------------------------------------------
(* Properties of fast_wild_compare_utf8, checked under SpecUtf8. *)

WildChars == Chars(wild_string)
TameChars == Chars(tame_string)

\* C10: a char that is not '*' or '?' but whose code point holds the byte of
\* '*' or '?' is a literal, equal only to itself, and a '?' of the pattern
\* takes one such char whatever the length of its encoding.
C10_WideSymbolsAreLiterals ==
    (Returned /\ (Range(WildChars) \cup Range(TameChars)) \cap WideSymbols # {})
        => (result <=> GlobMatch(WildChars, TameChars))

\* A '?' and a wide literal of the pattern matched against wide chars.
C10_Witness ==
    /\ Returned /\ result
    /\ QMARK \in Range(WildChars)
    /\ Range(WildChars) \cap WideSymbols # {}
    /\ Len(TameChars) >= 2
    /\ Range(TameChars) \subseteq WideSymbols

\* C12: over a whole invocation the lower loop advances both cursors at
\* most len(pattern) * len(text) times and falls back at most len(text) times.
C12_WorkBound ==
    /\ advances <= Len(Wild) * Len(Tame)
    /\ backtracks <= Len(Tame)

\* A return after the text was scanned again: more advances than the text
\* has symbols.
C12_Witness ==
    /\ Returned
    /\ backtracks >= 1
    /\ advances > Len(Tame)

\* The two phases of the function and its two outcomes.
PrefixLoops == {"prefix", "prefix_tail", "prefix_star", "prefix_seek",
                "prefix_scan"}
SteadyLoops == {"steady", "steady_star", "steady_seek", "steady_scan",
                "questions", "fall_back", "end_check"}

Phase ==
    IF pc \in PrefixLoops THEN "PREFIX_SCAN"
    ELSE IF pc \in SteadyLoops THEN "STEADY_STATE"
    ELSE IF pc = "done" THEN (IF result THEN "MATCH" ELSE "NO_MATCH")
    ELSE "PANIC"

\* The pattern matches the text symbol by symbol, without a STAR, below n.
PrefixMatches(n) ==
    \A i \in 0..(n - 1) :
        /\ InBounds(Wild, i) /\ InBounds(Tame, i)
        /\ At(Wild, i) # STAR
        /\ (At(Wild, i) = QMARK \/ At(Wild, i) = At(Tame, i))

\* The index of the first STAR of the pattern, Len(Wild) if it has none.
FirstStar ==
    IF STAR \in Range(Wild)
    THEN CHOOSE i \in 0..(Len(Wild) - 1) :
            At(Wild, i) = STAR /\ \A k \in 0..(i - 1) : At(Wild, k) # STAR
    ELSE Len(Wild)

\* The index after the run of STARs that starts at i, Len(Wild) if the
\* pattern ends with the run.
AfterRun(i) ==
    IF \E k \in i..(Len(Wild) - 1) : At(Wild, k) # STAR
    THEN CHOOSE k \in i..(Len(Wild) - 1) :
            At(Wild, k) # STAR /\ \A m \in i..(k - 1) : At(Wild, m) = STAR
    ELSE Len(Wild)

\* The prefix scan met the first STAR with text left, the pattern goes on
\* after the run of STARs, and the forward scan found its symbol.
MetFirstStar ==
    /\ FirstStar < Len(Wild)
    /\ PrefixMatches(FirstStar)
    /\ FirstStar < Len(Tame)
    /\ AfterRun(FirstStar) < Len(Wild)
    /\ iwild = AfterRun(FirstStar)
    /\ InBounds(Tame, itame)
    /\ (At(Wild, iwild) = QMARK \/ At(Wild, iwild) = At(Tame, itame))

\* C13: an invocation starts in PREFIX_SCAN; it leaves it for STEADY_STATE
\* only when the prefix scan met the first STAR (text left, pattern going on
\* after the STARs, forward scan successful) or by returning; STEADY_STATE is
\* left only by returning; a pattern without STAR never is in STEADY_STATE.
C13_Phases ==
    /\ Phase = "PREFIX_SCAN"
    /\ [][/\ Phase = "PREFIX_SCAN" =>
                Phase' \in {"PREFIX_SCAN", "STEADY_STATE", "MATCH", "NO_MATCH"}
          /\ (Phase = "PREFIX_SCAN" /\ Phase' = "STEADY_STATE") => MetFirstStar'
          /\ Phase = "STEADY_STATE" =>
                Phase' \in {"STEADY_STATE", "MATCH", "NO_MATCH"}
          /\ Phase \in {"MATCH", "NO_MATCH"} => Phase' = Phase]_vars
    /\ [](STAR \notin Range(Wild) => Phase # "STEADY_STATE")

\* The lower loop at work on its second run of STARs.
C13_Witness ==
    /\ pc = "steady_scan"
    /\ iwild > iwild_sequence
    /\ itame > itame_sequence

\* C14: in every state 0 <= iwild <= len(pattern) and, once itame is
\* assigned, 0 <= itame <= len(text).
C14_CursorBounds ==
    /\ 0 <= iwild /\ iwild <= Len(Wild)
    /\ itame # Unassigned => (0 <= itame /\ itame <= Len(Tame))

\* The increment at the end of a lower-loop iteration has taken both
\* cursors to the ends of the pattern and of the text.
C14_Witness ==
    /\ pc = "steady"
    /\ advances >= 2
    /\ iwild = Len(Wild)
    /\ itame = Len(Tame)

\* C15: when the prefix scan uses up the text at position len(text), the
\* pattern having matched it symbol by symbol, the result is true exactly
\* when the rest of the pattern is STARs; when it uses up the pattern with
\* text left, the result is false.  Either way the lower loop is not reached.
C15_PrefixEnds ==
    Returned =>
        /\ (Len(Wild) >= Len(Tame) /\ PrefixMatches(Len(Tame))) =>
              /\ itame = Unassigned
              /\ result <=> \A i \in Len(Tame)..(Len(Wild) - 1) :
                                At(Wild, i) = STAR
        /\ (Len(Wild) < Len(Tame) /\ PrefixMatches(Len(Wild))) =>
              /\ itame = Unassigned
              /\ ~result

\* A text matched symbol by symbol, with two STARs left in the pattern.
C15_Witness ==
    /\ Returned /\ result
    /\ Len(Tame) >= 2
    /\ Len(Wild) >= Len(Tame) + 2
    /\ PrefixMatches(Len(Tame))

\* The prefix scan meets the first STAR of the pattern with text left.
MeetsFirstStar ==
    /\ FirstStar < Len(Wild)
    /\ FirstStar < Len(Tame)
    /\ PrefixMatches(FirstStar)

\* Where the search after the first run of STARs stops in the text: at the
\* STAR's index if the symbol after the run is QMARK, else at the first index
\* from there on that holds the symbol, Len(Tame) if there is none.
FirstProspect ==
    LET i == FirstStar
        sym == At(Wild, AfterRun(i))
    IN  IF sym = QMARK THEN i
        ELSE IF \E j \in i..(Len(Tame) - 1) : At(Tame, j) = sym
        THEN CHOOSE j \in i..(Len(Tame) - 1) :
                /\ At(Tame, j) = sym
                /\ \A m \in i..(j - 1) : At(Tame, m) # sym
        ELSE Len(Tame)

\* C16: when the prefix scan meets the first STAR with text left, the result
\* is true if the run of STARs ends the pattern; otherwise the lower loop is
\* entered with the anchor's pattern position at the symbol after the run and
\* the anchor's text position at the STAR's index if that symbol is QMARK,
\* else at the first text index from there on that holds the symbol, and the
\* result is false if no text index does.
C16_FirstStar ==
    /\ [](Returned /\ MeetsFirstStar =>
            IF AfterRun(FirstStar) = Len(Wild)
            THEN result /\ iwild_sequence = Unassigned
            ELSE IF FirstProspect = Len(Tame)
            THEN ~result /\ iwild_sequence = Unassigned
            ELSE iwild_sequence # Unassigned)
    /\ [][(pc \in PrefixLoops /\ pc' = "steady") =>
            /\ MeetsFirstStar
            /\ AfterRun(FirstStar) < Len(Wild)
            /\ FirstProspect < Len(Tame)
            /\ iwild_sequence' = AfterRun(FirstStar)
            /\ itame_sequence' = FirstProspect
            /\ iwild' = iwild_sequence'
            /\ itame' = itame_sequence']_vars

\* The lower loop has just been entered: the first STAR came after a literal,
\* the run had two STARs, and the search passed over a text symbol.
C16_Witness ==
    /\ pc = "steady" /\ advances = 0 /\ backtracks = 0
    /\ MeetsFirstStar
    /\ FirstStar >= 1
    /\ iwild_sequence > FirstStar + 1
    /\ itame_sequence > FirstStar

\* C17: each run of STARs the lower loop processes overwrites the one anchor
\* with the new (iwild, itame); a backtrack sets iwild to a position after
\* every STAR processed so far; and while the lower loop matches or
\* backtracks, the positions from the anchor's up to iwild hold no STAR.
C17_SingleAnchor ==
    /\ [](pc \in {"steady", "questions", "fall_back", "end_check"} =>
            /\ 0 <= iwild_sequence /\ iwild_sequence <= iwild
            /\ \A k \in iwild_sequence..(iwild - 1) : At(Wild, k) # STAR
            /\ \E k \in 0..(iwild_sequence - 1) : At(Wild, k) = STAR)
    /\ [][/\ (pc \in {"steady_seek", "steady_scan"} /\ pc' = "end_check") =>
              /\ At(Wild, iwild - 1) = STAR
              /\ iwild' = iwild
              /\ iwild_sequence' = iwild'
              /\ itame_sequence' = itame'
          /\ (pc = "questions" /\ pc' = "fall_back") =>
              /\ iwild' = iwild_sequence'
              /\ iwild' <= iwild
              /\ \A k \in 0..(iwild - 1) : At(Wild, k) = STAR => k < iwild'
         ]_vars

\* A backtrack to an anchor that the lower loop set after a second run of
\* STARs.
C17_Witness ==
    /\ pc = "fall_back"
    /\ iwild = iwild_sequence
    /\ At(Wild, iwild_sequence - 1) = STAR
    /\ \E k \in 1..(iwild_sequence - 2) :
          /\ At(Wild, k) # STAR
          /\ At(Wild, k - 1) = STAR

\* C18: a backtrack that goes on leaves the anchor's text position above
\* where it was when the backtrack began and itame at it, on a text symbol
\* equal to the pattern symbol at iwild; no step of an invocation lowers an
\* anchor coordinate; and a backtrack that runs off the end of the text
\* returns true exactly when iwild is at the end of the pattern.
C18_NeverSoFarAgain ==
    [][/\ iwild_sequence' >= iwild_sequence
       /\ itame_sequence' >= itame_sequence
       /\ (pc = "fall_back" /\ pc' = "end_check") =>
             /\ itame_sequence' > backtrack_from[2]
             /\ itame' = itame_sequence'
             /\ InBounds(Wild, iwild') /\ InBounds(Tame, itame')
             /\ At(Tame, itame') = At(Wild, iwild')
       /\ (pc = "fall_back" /\ pc' = "done") =>
             /\ itame_sequence' >= Len(Tame)
             /\ result' <=> (iwild >= Len(Wild))
      ]_vars

\* A backtrack has just found its text symbol two places above the anchor
\* it began from; the pattern's only STAR is its first symbol, so that the
\* anchor was not set by a run of STARs in the lower loop.
C18_Witness ==
    /\ pc = "end_check"
    /\ backtracks >= 1
    /\ \A k \in 1..(Len(Wild) - 1) : At(Wild, k) # STAR
    /\ iwild = iwild_sequence
    /\ itame = itame_sequence
    /\ itame_sequence >= backtrack_from[2] + 2

\* C19: a backtrack moves the anchor's pattern position past exactly the
\* run of QMARKs that starts at it and the anchor's text position by as many
\* places, one of each at a time, and then sets iwild to the anchor's
\* pattern position; the anchor's pattern position is then the end of the
\* pattern or a symbol that is neither QMARK nor STAR, and the anchor's text
\* position is below len(text).
C19_Questions ==
    [][/\ (pc = "questions" /\ pc' = "questions") =>
             /\ At(Wild, iwild_sequence) = QMARK
             /\ iwild_sequence' = iwild_sequence + 1
             /\ itame_sequence' = itame_sequence + 1
             /\ iwild' = iwild
       /\ (pc = "questions" /\ pc' = "fall_back") =>
             LET n == iwild_sequence' - backtrack_from[1] IN
             /\ n >= 0
             /\ \A k \in backtrack_from[1]..(iwild_sequence' - 1) :
                   At(Wild, k) = QMARK
             /\ \/ iwild_sequence' = Len(Wild)
                \/ /\ iwild_sequence' < Len(Wild)
                   /\ At(Wild, iwild_sequence') \notin {QMARK, STAR}
             /\ itame_sequence' = backtrack_from[2] + n
             /\ itame_sequence' < Len(Tame)
             /\ iwild' = iwild_sequence'
      ]_vars

\* A backtrack has passed a run of two QMARKs and goes on to fall back.
C19_Witness ==
    /\ pc = "fall_back"
    /\ iwild = iwild_sequence
    /\ iwild_sequence >= backtrack_from[1] + 2
    /\ itame_sequence = backtrack_from[2] + 2

\* C20: whenever the lower loop reaches its check for the end at the end of
\* an iteration, itame is below len(text), so that the check never returns:
\* it always goes on to the next iteration, and every result of the lower
\* loop comes from one of the returns before it.
C20_EndCheckNeverReturns ==
    /\ [](pc = "end_check" => (0 <= itame /\ itame < Len(Tame)))
    /\ [][/\ pc = "end_check" => pc' = "steady"
          /\ (pc \in SteadyLoops /\ pc' = "done") =>
                pc \in {"steady", "steady_star", "steady_seek",
                        "steady_scan", "fall_back"}
         ]_vars

\* The check is reached after a backtrack, on the last symbol of the text and
\* of the pattern.
C20_Witness ==
    /\ pc = "end_check"
    /\ backtracks >= 1
    /\ itame = itame_sequence
    /\ itame = Len(Tame) - 1
    /\ iwild = Len(Wild) - 1

\* C21: at the start of every iteration of the lower loop both cursors are
\* the same number of places, zero or more, above the anchor; the STAR
\* branch and the backtrack leave them on the anchor, and the advance at the
\* end of an iteration adds one to each cursor and leaves the anchor alone.
C21_EqualOffsets ==
    /\ [](pc = "steady" =>
            /\ iwild - iwild_sequence = itame - itame_sequence
            /\ iwild - iwild_sequence >= 0)
    /\ [][/\ (pc \in {"steady_seek", "steady_scan", "fall_back"}
              /\ pc' = "end_check") =>
                /\ iwild' = iwild_sequence'
                /\ itame' = itame_sequence'
          /\ (pc = "end_check" /\ pc' = "steady") =>
                /\ iwild' = iwild + 1
                /\ itame' = itame + 1
                /\ iwild_sequence' = iwild_sequence
                /\ itame_sequence' = itame_sequence
         ]_vars

\* An iteration starts two places above the anchor that a backtrack left.
C21_Witness ==
    /\ pc = "steady"
    /\ backtracks >= 1
    /\ iwild = iwild_sequence + 2
    /\ itame = itame_sequence + 2

\* C22: every advance of both cursors in the lower loop consumes a matching
\* pair: when iwild and itame are incremented, iwild is below len(pattern),
\* itame is below len(text), the pattern symbol at iwild is not STAR, and it
\* is QMARK or equal to the text symbol at itame.
C22_AdvanceConsumesMatch ==
    [][(pc = "end_check" /\ pc' = "steady"
        /\ iwild' = iwild + 1 /\ itame' = itame + 1) =>
          /\ 0 <= iwild /\ iwild < Len(Wild)
          /\ 0 <= itame /\ itame < Len(Tame)
          /\ At(Wild, iwild) # STAR
          /\ \/ At(Wild, iwild) = QMARK
             \/ At(Wild, iwild) = At(Tame, itame)
      ]_vars

\* After a backtrack, a plain match has just consumed a literal of the
\* pattern and the equal text symbol.
C22_Witness ==
    /\ pc = "steady"
    /\ backtracks >= 1
    /\ advances >= 3
    /\ iwild > iwild_sequence
    /\ At(Wild, iwild - 1) \notin {QMARK, STAR}
    /\ At(Wild, iwild - 1) = At(Tame, itame - 1)

----------------------------------------------------------------------------
(* Properties of fast_wild_compare_ascii on long alternating patterns,     *)
(* checked under SpecAlternating.                                          *)

\* C11: the pattern "*c*c*...*c*" with k >= 1 copies of one literal c
\* matches the text of n >= 0 copies of c exactly when n >= k.
C11_AlternatingRuns ==
    Returned =>
        \A c \in Literals, k \in 1..MaxCopies :
            (Wild = Alternating(c, k) /\ Tame = Copies(c, Len(Tame)))
                => (result <=> (Len(Tame) >= k))

\* The longest alternating pattern matched against a longer run.
C11_Witness ==
    /\ Returned /\ result
    /\ \E c \in Literals, k \in 3..MaxCopies :
          /\ Wild = Alternating(c, k)
          /\ Tame = Copies(c, Len(Tame))
          /\ Len(Tame) > k

====
